---- MODULE Spec2Model ----
(***************************************************************************)
(* Model of qfputs: the Fputs buffered writer (write, fputs, drain,        *)
(* fflush, abort, setOnError and the _sync drain loop) writing to a sink   *)
(* that acknowledges each write with success or failure.                   *)
(*                                                                         *)
(* Spec, FairSpec and PollSpec are the Fputs writer over an abstract sink  *)
(* (without fairness, with the loop's timers and the sink fair, and with   *)
(* the polling timers fair too); FwSpec is the FileWriter sink: instances  *)
(* appending to one file under flock, with their periodic reopen, in a     *)
(* file system where the file can be rotated; ModeSpec is one FileWriter   *)
(* created with any open mode; OvSpec is one FileWriter whose write calls  *)
(* overlap; RnSpec is renameFile among other programs, RnFwSpec renameFile *)
(* of a file that a FileWriter appends to.                                 *)
(*                                                                         *)
(* Text is a sequence of character codes (10 is "\n"), a Buffer a sequence *)
(* of bytes.  Errors are numbered by the sink call that failed; 0 is null. *)
(***************************************************************************)
EXTENDS Integers, Sequences, FiniteSets, TLC

\* ---------------------------------------------------------------- bounds
\* number of calls of the public methods (write, fputs, drain, fflush, abort,
\* setOnError) explored
MaxOps == 4
\* opts.writesize of the modelled instance
WriteSize == 2
\* number of calls of the public methods of FileWriter (write, close) explored
MaxFwOps == 3
\* how far the clock runs, in units of reopenInterval
MaxTime == 2
\* number of files that come to exist (the first under the filename, those
\* created after the name was rotated away, and those under newName)
MaxFiles == 3
\* FileWriter.mutexTimeout of the modelled program, in units of
\* reopenInterval
MutexTimeout == 2

\* ------------------------------------------------------------- constants
NoError == 0
NoHandler == "null"
Handler == "handler"
NL == 10

\* this.highWaterMark = opts.highWaterMark || this.writesize
HighWaterMark == WriteSize

\* --------------------------------------------------------------- helpers
RECURSIVE Utf8(_)
\* Buffer.from(str): one byte per ASCII char, two bytes per char in 128..2047
Utf8(str) ==
    IF str = <<>> THEN <<>>
    ELSE LET c == Head(str)
         IN (IF c < 128 THEN <<c>> ELSE <<192 + (c \div 64), 128 + (c % 64)>>)
            \o Utf8(Tail(str))

\* fromBuf taking one byte per char (the 'binary' encoding) instead of utf8
fromBuf_Latin1(str) == [i \in 1..Len(str) |-> str[i] % 256]

\* fromBuf(str) of the Buffer branch of write: Buffer.from / new Buffer
fromBuf(str) == Utf8(str)

RECURSIVE Concat(_)
\* Buffer.concat(list)
Concat(bufs) == IF bufs = <<>> THEN <<>> ELSE Head(bufs) \o Concat(Tail(bufs))

\* "" + x for the values submitted: a string is itself, the number 7 is "7"
ToStr(item) == IF item.kind = "number" THEN <<48 + item.val>> ELSE item.val

\* the bytes an item contributes to the output
ItemBytes(item) == IF item.kind = "buffer" THEN item.val ELSE Utf8(ToStr(item))

\* the bytes of a payload (a string or a Buffer) as the sink stores them
PayloadBytes(p) == IF p.type = "string" THEN Utf8(p.data) ELSE p.data

RECURSIVE AllBytes(_)
AllBytes(ps) == IF ps = <<>> THEN <<>> ELSE PayloadBytes(Head(ps)) \o AllBytes(Tail(ps))

IsPrefix(s, t) == Len(s) <= Len(t) /\ SubSeq(t, 1, Len(s)) = s

RemoveAt(s, i) == SubSeq(s, 1, i - 1) \o SubSeq(s, i + 1, Len(s))

\* a queued text chunk and a queued list-of-buffers chunk
StrChunk(s) == [type |-> "string", str |-> s, length |-> Len(s), chunks |-> <<>>]
ObjChunk(n, bufs) == [type |-> "object", str |-> <<>>, length |-> n, chunks |-> bufs]

\* the values submitted to write() and to fputs()
WriteItems ==
    { [kind |-> "string", val |-> <<233>>],
      [kind |-> "buffer", val |-> <<1>>] }

FputsItems ==
    { [kind |-> "string", val |-> <<NL>>],
      [kind |-> "number", val |-> 7] }

\* ----------------------------------------------------------------- state
VARIABLES
    datachunks,       \* this.datachunks
    unwrittenLength,  \* this.unwrittenLength
    writtenLength,    \* this.writtenLength
    resetCount,       \* this.resetCount
    syncing,          \* this._syncing
    error,            \* this._error
    onError,          \* this._onError
    syncTimers,       \* scheduled _sync calls: "timeout" or "immediate"
    inflight,         \* sink writes issued and not yet acknowledged
    written,          \* payloads the sink has received, in order
    waiters,          \* pending drain / fflush / abort polling timers
    nsink,            \* number of sink write calls made
    nops,             \* number of calls of the public methods made
    submitted,        \* history: bytes submitted, in submission order
    aborted,          \* history: abort has been called
    kept,             \* history: the bytes submitted and not discarded by abort
    handled,          \* history: the errors passed to the error handler
    returned,         \* history: the errors passed to drain/fflush/abort callbacks
    lastReport,       \* history: a fflush callback returned an error since the last write
    ev                \* what the last step did and which callback it invoked

code == <<datachunks, unwrittenLength, writtenLength, resetCount, syncing,
          error, onError>>
env_sink == <<syncTimers, inflight, written, nsink>>
env == <<env_sink, waiters>>
hist == <<nops, submitted, aborted, kept, handled, returned, lastReport>>
fputs == <<code, env, hist, ev>>

\* ---------------------------------------------------- state of FileWriter
VARIABLES
    flockInstalled,   \* require('fs-ext') succeeded: flock is the OS advisory lock
    now,              \* Date.now(), in units of reopenInterval
    fileIno,          \* the file (inode) the filename names, 0 if none
    nino,             \* number of files created under the filename
    fds,              \* descriptors opened so far: the file each is open on
                      \* (0 once closed) and the FileWriter that opened it
    lockedBy,         \* per file, the descriptor holding its exclusive lock, 0 if none
    fd,               \* this.fd of each FileWriter, 0 for undefined
    isFirstOpen,      \* this.isFirstOpen of each FileWriter
    reopenTime,       \* this.reopenTime of each FileWriter
    pc,               \* where the write call of each FileWriter stands
    cfd,              \* the fd variable of the callbacks of that call
    res,              \* the err fs.write produced for that call
    nfwops,           \* number of write and close calls made to the FileWriters
    fwEv,             \* the callback of write the last step invoked, if any
    openmode,         \* this.openmode of each FileWriter
    mode,             \* the mode of the fs.open call each FileWriter has pending
    content,          \* per file, the data in it: one item per append
    newIno,           \* the file (inode) newName names, 0 if none
    rn,               \* the renameFile call: its arguments, locals and position
    xfd               \* the descriptor another program holds a lock through

\* what the FileWriter steps leave alone
rename == <<newIno, rn, xfd>>
fw == <<flockInstalled, now, fileIno, nino, fds, lockedBy, fd, isFirstOpen,
        reopenTime, pc, cfd, res, nfwops, fwEv, openmode, mode, content, rename>>
vars == <<fputs, fw>>

\* op: the operation that ran; cb: the callback it invoked ("none" if none,
\* "TypeError" if the call threw); err: the error passed to that callback;
\* hnd: the error passed to the error handler; ret: the value returned;
\* len: the length passed to write's callback; max, sub and rep: those of the
\* call whose callback ran (see Waiter); busy: the sink writes that were
\* outstanding when abort was called
Ev(op) ==
    [op |-> op, cb |-> "none", err |-> NoError, hnd |-> NoError, ret |-> "none",
     len |-> 0, max |-> 0, sub |-> 0, rep |-> "none", busy |-> 0]

\* a drain / fflush / abort call: kind, its arguments and snapshot, and
\* history of the moment it was issued: sub, the number of bytes submitted
\* so far, and rep, whether a fflush callback had returned an error since
\* the last write ("none", or "pending" / "idle" by whether chunks were then
\* still queued or in flight)
Waiter(kind, max, expected, rc) ==
    [kind |-> kind, max |-> max, expected |-> expected, rc |-> rc,
     sub |-> Len(submitted), rep |-> lastReport,
     busy |-> IF kind = "abort" THEN Len(inflight) ELSE 0]

\* bytes of the payloads whose completion callback has run
AckedBytes == Len(AllBytes(written)) - Len(AllBytes(inflight))

\* the FileWriter instances, all on the same filename, each with its own
\* descriptors (they may be in one process or in several)
FileWriters == {1, 2}

\* this.reopenInterval = 50, the unit of the clock
ReopenInterval == 1

\* no error (null, or undefined)
None == "none"

\* the callback of write a step invoked: from which operation (op "none" and
\* w 0 if the step invoked none), of which instance, and with which err
FwEv(op, w) == [op |-> op, w |-> w, err |-> None]

\* the file modes: "a", "a+", "w", "w+", as their characters
OpenModes == {<<"a">>, <<"a", "+">>, <<"w">>, <<"w", "+">>}

\* openmode = opts.openmode || "a" of every instance
AppendMode == [w \in FileWriters |-> <<"a">>]

\* no file exists, no descriptor is open, the clock starts
FsEmpty ==
    /\ now = 0
    /\ fileIno = 0
    /\ newIno = 0
    /\ nino = 0
    /\ fds = <<>>
    /\ lockedBy = [i \in 1..MaxFiles |-> 0]
    /\ content = [i \in 1..MaxFiles |-> <<>>]
    /\ xfd = 0

\* new FileWriter(filename, openmode): the fields of every instance other
\* than openmode
FwNew ==
    /\ fd = [w \in FileWriters |-> 0]
    /\ mode = [w \in FileWriters |-> <<>>]
    /\ isFirstOpen = [w \in FileWriters |-> TRUE]
    /\ reopenTime = [w \in FileWriters |-> 0]
    /\ pc = [w \in FileWriters |-> "idle"]
    /\ cfd = [w \in FileWriters |-> 0]
    /\ res = [w \in FileWriters |-> None]
    /\ nfwops = 0
    /\ fwEv = FwEv("none", 0)

\* an argument renameFile can be given between newName and callback:
\* nothing, a number of milliseconds, or an options object.  Times are in
\* units of reopenInterval: 0 stands for any time shorter than that.
RenameArg(kind, waitMs, mutexTimeout) ==
    [kind |-> kind, waitMs |-> waitMs, mutexTimeout |-> mutexTimeout]

\* renameFile has not been called: pc is the step of the call ("idle"
\* before it, "source", "target", "rename", "wait", "flock" while that step
\* is to run or pending, "done" after the callback), arg, waitMs and
\* mutexTimeout its argument and the values in use, fd, guard and done the
\* locals of the same names (guard: the timer is armed), pending: the flock
\* request is outstanding, ino the file it is on; t the time the timer that
\* is pending was set.  History: steps, the steps run so far; moved, the
\* file the rename step moved, had, its data then, and at, the time of that
\* step; target, the file newName named when the call was made; err, the
\* error passed to the callback and calls, how often the callback was
\* invoked.
RnNew ==
    rn = [pc |-> "idle", arg |-> RenameArg("omitted", 0, 0), waitMs |-> 0,
          mutexTimeout |-> 0, fd |-> 0, guard |-> FALSE, done |-> FALSE,
          pending |-> FALSE, ino |-> 0, t |-> 0, steps |-> <<>>, moved |-> 0,
          had |-> <<>>, at |-> 0, target |-> 0, err |-> None, calls |-> 0]

\* new Fputs(writable): the fields of the instance, its sink and the history
FputsNew ==
    /\ datachunks = <<>>
    /\ unwrittenLength = 0
    /\ writtenLength = 0
    /\ resetCount = 0
    /\ syncing = FALSE
    /\ error = NoError
    /\ onError = NoHandler
    /\ syncTimers = <<>>
    /\ inflight = <<>>
    /\ written = <<>>
    /\ waiters = <<>>
    /\ nsink = 0
    /\ nops = 0
    /\ submitted = <<>>
    /\ aborted = FALSE
    /\ kept = <<>>
    /\ handled = {}
    /\ returned = {}
    /\ lastReport = "none"
    /\ ev = Ev("new")

\* an Fputs over a sink that acknowledges or fails each write; the
\* FileWriters are left as constructed
Init ==
    /\ FputsNew
    /\ FwNew /\ openmode = AppendMode
    /\ FsEmpty /\ flockInstalled = TRUE
    /\ RnNew

\* ------------------------------------------------------------ operations

\* the text branch without the merge: every write starts a chunk
MergeString_NewChunk(chunks, str) == Append(chunks, StrChunk(str))

\* Fputs.prototype.write, text branch: merge into the last chunk or start one
MergeString(chunks, str) ==
    LET n == Len(chunks)
    IN IF n > 0 /\ chunks[n].type = "string"
          /\ Len(chunks[n].str) + Len(str) <= WriteSize
       THEN [chunks EXCEPT ![n] = StrChunk(chunks[n].str \o str)]
       ELSE Append(chunks, StrChunk(str))

\* Fputs.prototype.write, Buffer branch: the new queue, and the adjustment
\* of unwrittenLength for a text chunk recounted in bytes
MergeBuffer(chunks, buf) ==
    LET n == Len(chunks)
        last == chunks[n]
    IN IF n > 0 /\ last.type = "string" /\ last.length < WriteSize
       THEN LET sb == fromBuf(last.str)
            IN IF n >= 2 /\ chunks[n - 1].type = "object"
                  /\ chunks[n - 1].length < WriteSize * 2
               THEN [chunks |-> Append(SubSeq(chunks, 1, n - 2),
                                   ObjChunk(chunks[n - 1].length + Len(sb) + Len(buf),
                                            chunks[n - 1].chunks \o <<sb, buf>>)),
                     adjust |-> Len(sb) - last.length]
               ELSE [chunks |-> [chunks EXCEPT ![n] =
                                   ObjChunk(Len(sb) + Len(buf), <<sb, buf>>)],
                     adjust |-> Len(sb) - last.length]
       ELSE IF n > 0 /\ last.type = "object" /\ last.length < WriteSize
       THEN [chunks |-> [chunks EXCEPT ![n] =
                           ObjChunk(last.length + Len(buf), Append(last.chunks, buf))],
             adjust |-> 0]
       ELSE [chunks |-> Append(chunks, ObjChunk(Len(buf), <<buf>>)), adjust |-> 0]

\* the counter reset made whenever anything has been written
ResetDue_Always(wl, ul) == wl # 0

\* the counter reset of write: TRUE when both lengths are zeroed
ResetDue(wl, ul) == wl # 0 /\ wl >= ul

\* the length passed to the callback counted in bytes
CallbackLength_Bytes(dataItem) == Len(Utf8(dataItem))

\* callback(null, dataItem.length): chars of a string, bytes of a Buffer
CallbackLength(dataItem) == Len(dataItem)

\* the value returned with the test "below" instead of "at or below"
Backpressure_Below(ul, wl) == ul - wl < HighWaterMark

\* the value write returns
Backpressure(ul, wl) == ul - wl <= HighWaterMark

\* StartSync without the test of _syncing
StartSync_Always == TRUE

\* write starts the sync thread if not currently syncing
StartSync == ~syncing

\* Fputs.prototype.write( dataItem, callback ), called as operation op; expect
\* is the bytes the submission is to contribute to the output
write(item, callback, op, retval, expect) ==
    LET isBuf == item.kind = "buffer"
        dataItem == IF isBuf THEN item.val ELSE ToStr(item)
        m == IF isBuf THEN MergeBuffer(datachunks, dataItem)
             ELSE [chunks |-> MergeString(datachunks, dataItem), adjust |-> 0]
        ul1 == unwrittenLength + m.adjust
        reset == ResetDue(writtenLength, ul1)
        ul2 == (IF reset THEN 0 ELSE ul1) + Len(dataItem)
        wl2 == IF reset THEN 0 ELSE writtenLength
    IN /\ datachunks' = m.chunks
       /\ unwrittenLength' = ul2
       /\ writtenLength' = wl2
       /\ resetCount' = IF reset THEN resetCount + 1 ELSE resetCount
       /\ IF StartSync
          THEN syncTimers' = Append(syncTimers, "timeout")
          ELSE syncTimers' = syncTimers
       /\ syncing' = TRUE
       /\ submitted' = submitted \o expect
       /\ kept' = kept \o expect
       /\ nops' = nops + 1
       /\ lastReport' = "none"
       /\ waiters' = [i \in 1..Len(waiters) |-> [waiters[i] EXCEPT !.rep = "none"]]
       /\ ev' = [Ev(op) EXCEPT
                   !.cb = IF callback THEN "write" ELSE "none",
                   !.len = IF callback THEN CallbackLength(dataItem) ELSE 0,
                   !.ret = IF ~retval THEN "undefined"
                           ELSE IF Backpressure(ul2, wl2) THEN "true" ELSE "false"]
       /\ UNCHANGED <<fw, error, onError, inflight, written, nsink,
                      aborted, handled, returned>>

Write ==
    /\ nops < MaxOps
    /\ \E item \in WriteItems, callback \in BOOLEAN :
          write(item, callback, "write", TRUE, ItemBytes(item))

\* the argument fputs passes to write: str, newline terminated
fputsLine(str) == IF str # <<>> /\ str[Len(str)] = NL THEN str ELSE str \o <<NL>>

\* the bytes a line is to contribute: its text, followed by one newline
\* unless the text ends with one
LineBytes(text) ==
    Utf8(text) \o (IF text # <<>> /\ text[Len(text)] = NL THEN <<>> ELSE <<NL>>)

\* Fputs.prototype.fputs( str ): coerce to a string, terminate, write
Fputs ==
    /\ nops < MaxOps
    /\ \E item \in FputsItems :
          LET str == ToStr(item)
          IN write([kind |-> "string", val |-> fputsLine(str)], FALSE, "fputs", FALSE,
                   LineBytes(str))

\* reportError that latches the last error instead of the first
reportError_LastWins(err) ==
    IF onError # NoHandler
    THEN [error |-> error, hnd |-> err]
    ELSE [error |-> err, hnd |-> NoError]

\* reportError that ignores the handler
reportError_LatchAnyway(err) ==
    IF error = NoError
    THEN [error |-> err, hnd |-> NoError]
    ELSE [error |-> error, hnd |-> NoError]

\* Fputs.prototype.reportError( err ): the handler if set, else the latch
reportError(err) ==
    IF onError # NoHandler
    THEN [error |-> error, hnd |-> err]
    ELSE IF error = NoError
    THEN [error |-> err, hnd |-> NoError]
    ELSE [error |-> error, hnd |-> NoError]

\* Fputs.prototype._sync, run by one of the scheduled timers
Sync ==
    \E t \in 1..Len(syncTimers) :
      /\ IF Len(datachunks) <= 0
         THEN /\ syncing' = FALSE
              /\ UNCHANGED <<datachunks, inflight, written, nsink>>
         ELSE LET c == Head(datachunks)
                  chunk == IF c.type = "string"
                           THEN [type |-> "string", data |-> c.str]
                           ELSE [type |-> "buffer", data |-> Concat(c.chunks)]
              IN /\ datachunks' = Tail(datachunks)
                 /\ nsink' = nsink + 1
                 /\ written' = Append(written, chunk)
                 /\ inflight' = Append(inflight, [id |-> nsink + 1, type |-> chunk.type,
                                                  data |-> chunk.data])
                 /\ UNCHANGED syncing
      /\ syncTimers' = RemoveAt(syncTimers, t)
      /\ ev' = Ev("sync")
      /\ UNCHANGED <<unwrittenLength, writtenLength, resetCount, error, onError,
                     waiters, hist, fw>>

\* a completion callback that ends the loop when the write failed
NextSync_StopOnError(err, n) ==
    IF err # NoError THEN "stop"
    ELSE IF n > 1 THEN "immediate" ELSE IF n > 0 THEN "timeout" ELSE "stop"

\* how the completion callback continues, err being its error and n the
\* number of chunks queued: by setImmediate, by setTimeout, or not at all
NextSync(err, n) ==
    IF n > 1 THEN "immediate" ELSE IF n > 0 THEN "timeout" ELSE "stop"

\* the completion callback _sync passed to writable.write, with or without err
Ack ==
    \E i \in 1..Len(inflight), ok \in BOOLEAN :
      LET chunk == inflight[i]
          err == IF ok THEN NoError ELSE chunk.id
          r == IF ok THEN [error |-> error, hnd |-> NoError] ELSE reportError(err)
          nx == NextSync(err, Len(datachunks))
      IN /\ writtenLength' = writtenLength + Len(chunk.data)
         /\ error' = r.error
         /\ handled' = IF r.hnd # NoError THEN handled \cup {r.hnd} ELSE handled
         /\ IF nx = "stop"
            THEN syncing' = FALSE /\ UNCHANGED syncTimers
            ELSE syncTimers' = Append(syncTimers, nx) /\ UNCHANGED syncing
         /\ inflight' = RemoveAt(inflight, i)
         /\ ev' = [Ev("ack") EXCEPT !.err = err,
                                    !.hnd = r.hnd]
         /\ UNCHANGED <<datachunks, unwrittenLength, resetCount, onError, written,
                        waiters, nsink, nops, submitted, aborted, kept,
                        returned, lastReport, fw>>

\* returnError that leaves the error latched
returnError_KeepLatch == [err |-> error, error |-> error]

\* Fputs.prototype.returnError( ): the error returned and the latch it leaves
returnError == [err |-> error, error |-> NoError]

\* callback(this.returnError()) of drain, fflush and abort: the event, the
\* latch and the history
Return(op, kind, w) ==
    /\ ev' = [Ev(op) EXCEPT !.cb = kind, !.err = returnError.err, !.max = w.max,
                            !.sub = w.sub, !.rep = w.rep, !.busy = w.busy]
    /\ error' = returnError.error
    /\ returned' = IF returnError.err # NoError
                    THEN returned \cup {returnError.err} ELSE returned
    /\ lastReport' = IF kind = "fflush" /\ returnError.err # NoError
                      THEN (IF datachunks' = <<>> /\ inflight = <<>>
                            THEN "idle" ELSE "pending")
                      ELSE lastReport

\* FflushDone with the reset test loosened from "changed" to "not less"
FflushDone_AnyEpoch(expectedWrittenLength, rc) ==
    writtenLength >= expectedWrittenLength \/ resetCount >= rc

\* the condition of fflush's waitloop
FflushDone(expectedWrittenLength, rc) ==
    writtenLength >= expectedWrittenLength \/ resetCount # rc

\* Fputs.prototype.fflush( callback )
Fflush ==
    /\ UNCHANGED <<datachunks, unwrittenLength, writtenLength, resetCount, syncing,
                   onError, env_sink, submitted, aborted, kept, handled, fw>>
    /\ nops < MaxOps
    /\ nops' = nops + 1
    /\ LET w == Waiter("fflush", 0, unwrittenLength, resetCount)
       IN IF error # NoError \/ FflushDone(w.expected, w.rc)
          THEN Return("fflush", "fflush", w) /\ UNCHANGED waiters
          ELSE /\ waiters' = Append(waiters, w)
               /\ ev' = Ev("fflush")
               /\ UNCHANGED <<error, returned, lastReport>>

\* Fputs.prototype.drain( maxUnwritten, callback ): what the call does in the
\* current state.  maxUnwritten = Omitted is the call drain(callback), in
\* which the parameter callback is undefined.
Omitted == -1
drain(maxUnwritten) ==
    IF error # NoError
    THEN IF maxUnwritten = Omitted THEN "TypeError" ELSE "error"
    ELSE LET max == IF maxUnwritten = Omitted THEN 2 * WriteSize ELSE maxUnwritten
         IN IF unwrittenLength - writtenLength <= max THEN "callback" ELSE "wait"

DrainArgs == {Omitted, 0}

Drain ==
    /\ UNCHANGED <<datachunks, unwrittenLength, writtenLength, resetCount, syncing,
                   onError, env_sink, submitted, aborted, kept, handled, fw>>
    /\ nops < MaxOps
    /\ nops' = nops + 1
    /\ \E maxUnwritten \in DrainArgs :
         LET w == Waiter("drain",
                         IF maxUnwritten = Omitted THEN 2 * WriteSize ELSE maxUnwritten,
                         0, 0)
             r == drain(maxUnwritten)
         IN IF r = "TypeError"
            THEN \* returnError() has run, then calling undefined throws
                 /\ error' = returnError.error
                 /\ ev' = [Ev("drain") EXCEPT !.cb = "TypeError"]
                 /\ UNCHANGED <<waiters, returned, lastReport>>
            ELSE IF r = "wait"
            THEN /\ waiters' = Append(waiters, w)
                 /\ ev' = Ev("drain")
                 /\ UNCHANGED <<error, returned, lastReport>>
            ELSE Return("drain", "drain", w) /\ UNCHANGED waiters

\* abort that leaves the queue as it is
Discard_Nothing(chunks) == chunks

\* this.datachunks = [] of abort
Discard(chunks) == <<>>

\* abort that calls back without waiting
AbortDone_AtOnce == TRUE

\* abort calls back, at once or from its waitloop, when not syncing
AbortDone == ~syncing

\* Fputs.prototype.abort( callback )
Abort ==
    /\ nops < MaxOps
    /\ nops' = nops + 1
    /\ datachunks' = Discard(datachunks)
    /\ aborted' = TRUE
    /\ kept' = AllBytes(written)
    /\ LET w == Waiter("abort", 0, 0, 0)
       IN IF AbortDone
          THEN Return("abort", "abort", w) /\ UNCHANGED waiters
          ELSE /\ waiters' = Append(waiters, w)
               /\ ev' = Ev("abort")
               /\ UNCHANGED <<error, returned, lastReport>>
    /\ UNCHANGED <<unwrittenLength, writtenLength, resetCount, syncing,
                   onError, env_sink, submitted, handled, fw>>

\* a polling timer of drain (5 ms), fflush (1 ms) or abort (2 ms) fires.  A
\* poll that finds its condition false only re-arms its timer and changes
\* nothing: it is a stuttering step, so the action is the poll that calls back.
Poll ==
    \E i \in 1..Len(waiters) :
      LET w == waiters[i]
          done == CASE w.kind = "fflush" -> FflushDone(w.expected, w.rc)
                    [] w.kind = "drain" -> drain(w.max) # "wait"
                    [] w.kind = "abort" -> AbortDone
      IN /\ done
         /\ UNCHANGED <<datachunks, unwrittenLength, writtenLength, resetCount,
                        syncing, onError, env_sink, nops, submitted,
                        aborted, kept, handled, fw>>
         /\ Return("poll", w.kind, w)
         /\ waiters' = RemoveAt(waiters, i)

\* Fputs.prototype.setOnError( handler ), handler a function
SetOnError ==
    /\ nops < MaxOps
    /\ nops' = nops + 1
    /\ onError' = Handler
    /\ IF error # NoError
       THEN \* handler(this.returnError())
            /\ error' = returnError.error
            /\ handled' = handled \cup {returnError.err}
            /\ ev' = [Ev("setOnError") EXCEPT !.hnd = returnError.err, !.ret = "this"]
       ELSE /\ ev' = [Ev("setOnError") EXCEPT !.ret = "this"]
            /\ UNCHANGED <<error, handled>>
    /\ UNCHANGED <<datachunks, unwrittenLength, writtenLength, resetCount, syncing,
                   env, submitted, aborted, kept, returned, lastReport, fw>>

Next ==
    \/ Write
    \/ Fputs
    \/ Sync
    \/ Ack
    \/ Fflush
    \/ Drain
    \/ Abort
    \/ Poll
    \/ SetOnError

Spec == Init /\ [][Next]_vars

\* the timers node has scheduled fire, and the sink completes every write it
\* was handed
FairSpec == Spec /\ WF_vars(Sync) /\ WF_vars(Ack)

\* in addition the polling timers of drain, fflush and abort keep firing: a
\* call whose condition stays true calls back
PollSpec == FairSpec /\ WF_vars(Poll)

\* ------------------------------------------------ FileWriter operations

\* fs.closeSync(d) on the table of descriptors
CloseFd(f, d) == [f EXCEPT ![d].ino = 0]

\* the lock table once descriptor d holds no lock (it was unlocked or closed)
Released(locks, d) == [i \in DOMAIN locks |-> IF locks[i] = d THEN 0 ELSE locks[i]]

\* fse.flock(d, "ex") granted: the OS lock, or nothing without fs-ext
Locked(locks, d) ==
    IF flockInstalled THEN [locks EXCEPT ![fds[d].ino] = d] ELSE locks

\* flock can be granted to descriptor d: no other descriptor holds the lock
\* of its file (without fs-ext the emulation calls back at once)
Grantable(d) ==
    IF flockInstalled
    THEN fds[d].ino # 0 /\ lockedBy[fds[d].ino] \in {0, d}
    ELSE TRUE

\* an unlock that does nothing
Unlock_Skip(locks, d) == locks

\* flockSync(d, "un"), its error dropped: the lock table afterwards
Unlock(locks, d) == IF flockInstalled THEN Released(locks, d) ELSE locks

\* this.reopenmode: a mode that truncates is replaced by the one that appends
ReopenMode_Same(m) == m

ReopenMode(m) ==
    IF m[1] = "w"
    THEN IF Len(m) > 1 /\ m[2] \in {"+", "r"} THEN <<"a", "+">> ELSE <<"a">>
    ELSE m

\* FileWriter._reopenFd of instance w, run by its write call c, up to the
\* call of fs.open, locks being the lock table it starts from and first the
\* value of this.isFirstOpen: pick the mode, close this.fd if set, set
\* reopenTime, open.  (pc, cfd, res and mode are the position and the locals
\* of a write call; with one call at a time on an instance the call carries
\* the number of its instance.)
reopenFd(w, c, locks, first) ==
    /\ mode' = [mode EXCEPT ![c] = IF first THEN openmode[w]
                                            ELSE ReopenMode(openmode[w])]
    /\ IF fd[w] # 0
       THEN fds' = CloseFd(fds, fd[w]) /\ lockedBy' = Released(locks, fd[w])
       ELSE fds' = fds /\ lockedBy' = locks
    /\ fd' = [fd EXCEPT ![w] = 0]
    /\ reopenTime' = [reopenTime EXCEPT ![w] = now + ReopenInterval]
    /\ pc' = [pc EXCEPT ![c] = "open"]

\* cb(err) of write call c of instance w, invoked from operation op: the
\* call is over
Callback(op, w, c, err) ==
    /\ pc' = [pc EXCEPT ![c] = "idle"]
    /\ cfd' = [cfd EXCEPT ![c] = 0]
    /\ res' = [res EXCEPT ![c] = None]
    /\ fwEv' = [FwEv(op, w) EXCEPT !.err = err]

\* FileWriter.write( str, cb ) up to the first asynchronous call: flock on
\* this.fd, or fs.open if there is none
FwWrite(w, c) ==
    /\ pc[c] = "idle"
    /\ nfwops < MaxFwOps
    /\ nfwops' = nfwops + 1
    /\ IF fd[w] # 0
       THEN /\ pc' = [pc EXCEPT ![c] = "lock"]
            /\ cfd' = [cfd EXCEPT ![c] = fd[w]]
            /\ UNCHANGED <<fds, lockedBy, fd, reopenTime, mode>>
       ELSE /\ reopenFd(w, c, lockedBy, isFirstOpen[w])
            /\ UNCHANGED cfd
    /\ fwEv' = FwEv("none", 0)
    /\ UNCHANGED <<flockInstalled, now, fileIno, nino, isFirstOpen, res, fputs,
                   openmode, content, rename>>

\* fs.open with this mode empties the file it opens
Truncates(m) == m[1] = "w"

\* the outcomes of fs.open
OpenOutcomes == {"ok", "ENOENT", "EACCES"}

\* a failed open that is tried again whenever the file is not found
RetryOpen_Always(w, err) == err = "ENOENT"

\* the test _reopenFd makes of a failed open: the file was removed since the
\* last open and may be created, so open it anew as a first open
RetryOpen(w, err) ==
    err = "ENOENT" /\ openmode[w][1] # "r" /\ ~isFirstOpen[w]

\* the callback of fs.open in _reopenFd
FwOpened(w, c) ==
    /\ pc[c] = "open"
    /\ \E outcome \in OpenOutcomes :
         CASE outcome = "ok" ->
                \* modes "a" and "w": the file is created if the name is
                \* free, and "w" truncates the file that is there
                LET ino == IF fileIno # 0 THEN fileIno ELSE nino + 1
                    d == Len(fds) + 1
                IN /\ fileIno # 0 \/ nino < MaxFiles
                   /\ fileIno' = ino
                   /\ nino' = IF fileIno # 0 THEN nino ELSE nino + 1
                   /\ content' = IF Truncates(mode[c])
                                 THEN [content EXCEPT ![ino] = <<>>]
                                 ELSE content
                   /\ mode' = [mode EXCEPT ![c] = <<>>]
                   /\ fds' = Append(fds, [ino |-> ino, by |-> w])
                   /\ isFirstOpen' = [isFirstOpen EXCEPT ![w] = FALSE]
                   /\ fd' = [fd EXCEPT ![w] = d]
                   \* callback(null, fd): flock(fd, "ex", ...)
                   /\ cfd' = [cfd EXCEPT ![c] = d]
                   /\ pc' = [pc EXCEPT ![c] = "lock"]
                   /\ fwEv' = FwEv("none", 0)
                   /\ UNCHANGED <<lockedBy, reopenTime, res>>
           [] outcome = "ENOENT" ->
                \* the name does not resolve and cannot be created
                /\ fileIno = 0
                /\ IF RetryOpen(w, outcome)
                   THEN /\ isFirstOpen' = [isFirstOpen EXCEPT ![w] = TRUE]
                        /\ reopenFd(w, c, lockedBy, TRUE)
                        /\ fwEv' = FwEv("none", 0)
                        /\ UNCHANGED <<cfd, res>>
                   ELSE /\ Callback("open", w, c, outcome)
                        /\ mode' = [mode EXCEPT ![c] = <<>>]
                        /\ UNCHANGED <<isFirstOpen, fds, lockedBy, fd, reopenTime>>
                /\ UNCHANGED <<fileIno, nino, content>>
           [] outcome = "EACCES" ->
                /\ Callback("open", w, c, outcome)
                /\ mode' = [mode EXCEPT ![c] = <<>>]
                /\ UNCHANGED <<isFirstOpen, fds, lockedBy, fd, reopenTime,
                               fileIno, nino, content>>
    /\ UNCHANGED <<flockInstalled, now, nfwops, fputs, openmode, rename>>

\* a descriptor that is never stale
Fresh_Always(w) == TRUE

\* Date.now() < self.reopenTime: the descriptor may still be used
Fresh(w) == now < reopenTime[w]

\* the outcomes of flock: granted, or failed
LockOutcomes == {"ok", "ENOLCK"}

\* the callback of flock in _getLockedFd
FwLocked(w, c) ==
    /\ pc[c] = "lock"
    /\ LET d == cfd[c]
       IN \E outcome \in LockOutcomes :
            IF flockInstalled /\ (outcome # "ok" \/ fds[d].ino = 0)
            THEN \* callback(err): ENOLCK, or EBADF on a closed descriptor
                 /\ Callback("flock", w, c, IF fds[d].ino = 0 THEN "EBADF" ELSE outcome)
                 /\ UNCHANGED <<fds, lockedBy, fd, reopenTime, mode>>
            ELSE /\ outcome = "ok"
                 /\ Grantable(d)
                 /\ IF Fresh(w)
                    THEN \* callback(null, fd): write issues fs.write
                         /\ lockedBy' = Locked(lockedBy, d)
                         /\ pc' = [pc EXCEPT ![c] = "write"]
                         /\ UNCHANGED <<fds, fd, reopenTime, mode>>
                    ELSE \* flockSync(fd, "un"), then _reopenFd
                         reopenFd(w, c, Unlock(Locked(lockedBy, d), d), isFirstOpen[w])
                 /\ fwEv' = FwEv("none", 0)
                 /\ UNCHANGED <<cfd, res>>
    /\ UNCHANGED <<flockInstalled, now, fileIno, nino, isFirstOpen, nfwops, fputs,
                   openmode, content, rename>>

\* the outcomes of fs.write on an open descriptor
WriteOutcomes == {None, "EIO"}

\* fs.write appends the data (one item, marked with the instance it comes
\* from) to the file, or fails: the physical write is over
FwAppend(w, c) ==
    /\ pc[c] = "write"
    /\ LET i == fds[cfd[c]].ino
       IN \E outcome \in WriteOutcomes :
            /\ res' = [res EXCEPT ![c] = IF i = 0 THEN "EBADF" ELSE outcome]
            /\ content' = IF i # 0 /\ outcome = None
                          THEN [content EXCEPT ![i] = Append(@, w)]
                          ELSE content
    /\ pc' = [pc EXCEPT ![c] = "written"]
    /\ fwEv' = FwEv("none", 0)
    /\ UNCHANGED <<flockInstalled, now, fileIno, nino, fds, lockedBy, fd,
                   isFirstOpen, reopenTime, cfd, nfwops, fputs, openmode, mode,
                   rename>>

\* the callback of fs.write: flockSync(fd, "un"); cb(err, nb)
FwWritten(w, c) ==
    /\ pc[c] = "written"
    /\ lockedBy' = Unlock(lockedBy, cfd[c])
    /\ Callback("write", w, c, res[c])
    /\ UNCHANGED <<flockInstalled, now, fileIno, nino, fds, fd, isFirstOpen,
                   reopenTime, nfwops, fputs, openmode, mode,
                   content, rename>>

\* FileWriter.close( ) with a descriptor open
FwClose(w) ==
    /\ fd[w] # 0
    /\ nfwops < MaxFwOps
    /\ nfwops' = nfwops + 1
    /\ fds' = CloseFd(fds, fd[w])
    /\ lockedBy' = Released(lockedBy, fd[w])
    /\ fd' = [fd EXCEPT ![w] = 0]
    /\ fwEv' = FwEv("none", 0)
    /\ UNCHANGED <<flockInstalled, now, fileIno, nino, isFirstOpen, reopenTime,
                   pc, cfd, res, fputs, openmode, mode,
                   content, rename>>

\* reopenInterval passes
FwTick ==
    /\ now < MaxTime
    /\ now' = now + 1
    /\ fwEv' = FwEv("none", 0)
    /\ UNCHANGED <<flockInstalled, fileIno, nino, fds, lockedBy, fd, isFirstOpen,
                   reopenTime, pc, cfd, res, nfwops, fputs, openmode, mode,
                   content, rename>>

\* another program renames the file away (log rotation): the descriptors
\* open on it stay open, the filename names nothing
FwRotate ==
    /\ fileIno # 0
    /\ nino < MaxFiles
    /\ fileIno' = 0
    /\ fwEv' = FwEv("none", 0)
    /\ UNCHANGED <<flockInstalled, now, nino, fds, lockedBy, fd, isFirstOpen,
                   reopenTime, pc, cfd, res, nfwops, fputs, openmode, mode,
                   content, rename>>

FwNext ==
    \/ \E w \in FileWriters : FwWrite(w, w)
    \/ \E w \in FileWriters : FwOpened(w, w)
    \/ \E w \in FileWriters : FwLocked(w, w)
    \/ \E w \in FileWriters : FwAppend(w, w)
    \/ \E w \in FileWriters : FwWritten(w, w)
    \/ \E w \in FileWriters : FwClose(w)
    \/ FwTick
    \/ FwRotate

\* FileWriters on one filename, with or without fs-ext installed, each with
\* at most one write call outstanding (as the sink contract requires)
FwInit ==
    /\ FputsNew
    /\ FwNew /\ openmode = AppendMode
    /\ FsEmpty /\ flockInstalled \in BOOLEAN
    /\ RnNew

FwSpec == FwInit /\ [][FwNext]_vars

\* another program puts a file that was renamed away back under the
\* filename (or the directory that held it)
FwRestore ==
    /\ fileIno = 0
    /\ \E i \in 1..nino : fileIno' = i
    /\ fwEv' = FwEv("none", 0)
    /\ UNCHANGED <<flockInstalled, now, nino, fds, lockedBy, fd, isFirstOpen,
                   reopenTime, pc, cfd, res, nfwops, fputs, openmode, mode,
                   content, rename>>

\* the FileWriter whose open mode is chosen
ModeWriters == {1}

ModeNext ==
    \/ \E w \in ModeWriters : FwWrite(w, w)
    \/ \E w \in ModeWriters : FwOpened(w, w)
    \/ \E w \in ModeWriters : FwLocked(w, w)
    \/ \E w \in ModeWriters : FwAppend(w, w)
    \/ \E w \in ModeWriters : FwWritten(w, w)
    \/ \E w \in ModeWriters : FwClose(w)
    \/ FwTick
    \/ FwRotate
    \/ FwRestore

\* one FileWriter, created with any of the open modes, on a filename that
\* other programs rename away and put back
ModeInit ==
    /\ FputsNew
    /\ FwNew /\ \E m \in OpenModes : openmode = [w \in FileWriters |-> m]
    /\ FsEmpty /\ flockInstalled = TRUE
    /\ RnNew

ModeSpec == ModeInit /\ [][ModeNext]_vars

\* ------------------------------------------------ renameFile operations

\* the arguments renameFile is called with in the model: none, a number
\* (shorter than reopenInterval, or equal to it), or an options object with
\* one or the other as waitMs and with a mutexTimeout
RenameArgs ==
    {RenameArg("omitted", 0, 0), RenameArg("number", 0, 0),
     RenameArg("number", ReopenInterval, 0), RenameArg("options", 0, 1),
     RenameArg("options", ReopenInterval, 1)}

\* the waitMs a call asks for: the default 50 ms, the number, or the waitMs
\* of the options
GivenWaitMs(arg) == IF arg.kind = "omitted" THEN ReopenInterval ELSE arg.waitMs

\* waitMs as renameFile passes it to setTimeout: 50 if the argument was
\* omitted, else the argument itself; setTimeout takes a delay that is not a
\* number (an options object) as 1 ms
WaitMs(arg) ==
    CASE arg.kind = "omitted" -> ReopenInterval
      [] arg.kind = "number" -> arg.waitMs
      [] arg.kind = "options" -> 0

\* the callback of aflow.series, run once with the error of the step that
\* failed (or with none after the last step), f and locks being the tables of
\* descriptors and locks it starts from: clear the guard timer, close fd
\* (which drops its lock), invoke the callback of renameFile
Final(r, f, locks, err) ==
    /\ rn' = [r EXCEPT !.pc = "done", !.guard = FALSE, !.err = err,
                       !.calls = @ + 1]
    /\ fds' = IF r.fd # 0 THEN CloseFd(f, r.fd) ELSE f
    /\ lockedBy' = IF r.fd # 0 THEN Released(locks, r.fd) ELSE locks

\* renameFile( oldName, newName, [waitMs,] callback ) up to the start of
\* aflow.series
RenameFile ==
    /\ rn.pc = "idle"
    /\ \E arg \in RenameArgs :
         rn' = [rn EXCEPT !.pc = "source", !.arg = arg, !.waitMs = WaitMs(arg),
                          !.mutexTimeout = MutexTimeout, !.target = newIno]
    /\ fwEv' = FwEv("none", 0)
    /\ UNCHANGED <<flockInstalled, now, fileIno, nino, fds, lockedBy, fd,
                   isFirstOpen, reopenTime, pc, cfd, res, nfwops, fputs, openmode,
                   mode, content, newIno, xfd>>

\* a step that has run is recorded
Ran(r, step) == [r EXCEPT !.steps = Append(@, step)]

\* step 1: fs.closeSync(fs.openSync(oldName, "r")), which throws ENOENT if
\* oldName does not exist
RnSource ==
    /\ rn.pc = "source"
    /\ IF fileIno = 0
       THEN Final(Ran(rn, "source"), fds, lockedBy, "ENOENT")
       ELSE /\ rn' = [Ran(rn, "source") EXCEPT !.pc = "target"]
            /\ UNCHANGED <<fds, lockedBy>>
    /\ fwEv' = FwEv("none", 0)
    /\ UNCHANGED <<flockInstalled, now, fileIno, nino, fd, isFirstOpen,
                   reopenTime, pc, cfd, res, nfwops, fputs, openmode, mode,
                   content, newIno, xfd>>

\* an open that takes any name as free
Eexist_Never(ino) == FALSE

\* the "x" of fs.openSync(newName, "wx"): the name is taken
Eexist(ino) == ino # 0

\* step 2: fs.closeSync(fs.openSync(newName, "wx")), which creates newName
\* as an empty file, or throws EEXIST if it exists
RnTarget ==
    /\ rn.pc = "target"
    /\ IF Eexist(newIno)
       THEN /\ Final(Ran(rn, "target"), fds, lockedBy, "EEXIST")
            /\ UNCHANGED <<newIno, nino, content>>
       ELSE /\ nino < MaxFiles
            /\ newIno' = nino + 1
            /\ nino' = nino + 1
            /\ content' = [content EXCEPT ![nino + 1] = <<>>]
            /\ rn' = [Ran(rn, "target") EXCEPT !.pc = "rename"]
            /\ UNCHANGED <<fds, lockedBy>>
    /\ fwEv' = FwEv("none", 0)
    /\ UNCHANGED <<flockInstalled, now, fileIno, fd, isFirstOpen, reopenTime, pc,
                   cfd, res, nfwops, fputs, openmode, mode, xfd>>

\* a rename that moves nothing
Renamed_Nothing(old, new) == [old |-> old, new |-> new]

\* fs.renameSync(oldName, newName): the files the two names name afterwards
Renamed(old, new) == [old |-> 0, new |-> old]

\* step 3: fs.renameSync(oldName, newName), which replaces newName, or
\* throws ENOENT if oldName does not exist; then step 4: setTimeout(cb, waitMs)
RnRename ==
    /\ rn.pc = "rename"
    /\ IF fileIno = 0
       THEN /\ Final(Ran(rn, "rename"), fds, lockedBy, "ENOENT")
            /\ UNCHANGED <<fileIno, newIno>>
       ELSE /\ fileIno' = Renamed(fileIno, newIno).old
            /\ newIno' = Renamed(fileIno, newIno).new
            /\ rn' = [Ran(Ran(rn, "rename"), "wait") EXCEPT
                        !.pc = "wait", !.t = now, !.moved = fileIno,
                        !.had = content[fileIno], !.at = now]
            /\ UNCHANGED <<fds, lockedBy>>
    /\ fwEv' = FwEv("none", 0)
    /\ UNCHANGED <<flockInstalled, now, nino, fd, isFirstOpen, reopenTime, pc,
                   cfd, res, nfwops, fputs, openmode, mode, content, xfd>>

\* a timer set at time t with this delay may fire: timers are never early
Due(t, delay) == now >= t + delay

\* cbOnce without its flag
CbOnce_Again(r) == TRUE

\* cbOnce(err) passes the call on: if (!done)
CbOnce(r) == ~r.done

\* the outcomes of fs.openSync(newName, "r") of a file that exists
OpenSyncOutcomes == {"ok", "EACCES"}

\* the timer of step 4 fires and step 5 runs: arm the guard timer, open
\* newName (a throw ends the series), ask for the lock; without fs-ext
\* flock calls cbOnce back at once
RnWaited ==
    /\ rn.pc = "wait"
    /\ Due(rn.t, rn.waitMs)
    /\ LET r == [Ran(rn, "lock") EXCEPT !.guard = TRUE, !.t = now]
       IN \E outcome \in OpenSyncOutcomes :
            IF newIno = 0 \/ outcome # "ok"
            THEN Final(r, fds, lockedBy, IF newIno = 0 THEN "ENOENT" ELSE outcome)
            ELSE LET d == Len(fds) + 1
                     f == Append(fds, [ino |-> newIno, by |-> 0])
                     q == [r EXCEPT !.fd = d, !.ino = newIno]
                 IN IF flockInstalled
                    THEN /\ rn' = [q EXCEPT !.pc = "flock", !.pending = TRUE]
                         /\ fds' = f
                         /\ UNCHANGED lockedBy
                    ELSE Final([q EXCEPT !.done = TRUE], f, lockedBy, None)
    /\ fwEv' = FwEv("none", 0)
    /\ UNCHANGED <<flockInstalled, now, fileIno, nino, fd, isFirstOpen,
                   reopenTime, pc, cfd, res, nfwops, fputs, openmode, mode,
                   content, newIno, xfd>>

\* the callback of fse.flock: the lock was granted (no other descriptor holds
\* the lock of the file), or flock failed.  cbOnce passes the first call on
\* to the end of the series and drops a later one.
RnLocked ==
    /\ rn.pending
    /\ \E outcome \in LockOutcomes :
         /\ outcome = "ok" => lockedBy[rn.ino] \in {0, rn.fd}
         /\ LET r == [rn EXCEPT !.pending = FALSE]
            IN IF CbOnce(rn)
               THEN Final([r EXCEPT !.done = TRUE], fds, lockedBy,
                          IF outcome = "ok" THEN None ELSE outcome)
               ELSE rn' = r /\ UNCHANGED <<fds, lockedBy>>
    /\ fwEv' = FwEv("none", 0)
    /\ UNCHANGED <<flockInstalled, now, fileIno, nino, fd, isFirstOpen,
                   reopenTime, pc, cfd, res, nfwops, fputs, openmode, mode,
                   content, newIno, xfd>>

\* the guard timer fires: cbOnce(new Error("timed out waiting for last write
\* to finish"))
RnTimeout ==
    /\ rn.guard
    /\ Due(rn.t, rn.mutexTimeout)
    /\ IF CbOnce(rn)
       THEN Final([rn EXCEPT !.done = TRUE], fds, lockedBy, "timed out")
       ELSE rn' = [rn EXCEPT !.guard = FALSE] /\ UNCHANGED <<fds, lockedBy>>
    /\ fwEv' = FwEv("none", 0)
    /\ UNCHANGED <<flockInstalled, now, fileIno, nino, fd, isFirstOpen,
                   reopenTime, pc, cfd, res, nfwops, fputs, openmode, mode,
                   content, newIno, xfd>>

\* another program opens the file under one of the names and takes its
\* exclusive lock (the OS lock, whatever this program has installed)
ExtLock ==
    /\ xfd = 0
    /\ \E i \in {fileIno, newIno} \ {0} :
         /\ lockedBy[i] = 0
         /\ fds' = Append(fds, [ino |-> i, by |-> -1])
         /\ lockedBy' = [lockedBy EXCEPT ![i] = Len(fds) + 1]
         /\ xfd' = Len(fds) + 1
    /\ fwEv' = FwEv("none", 0)
    /\ UNCHANGED <<flockInstalled, now, fileIno, nino, fd, isFirstOpen,
                   reopenTime, pc, cfd, res, nfwops, fputs, openmode, mode,
                   content, newIno, rn>>

\* that program unlocks the file and closes its descriptor; it takes the
\* lock once
ExtUnlock ==
    /\ xfd > 0
    /\ fds' = CloseFd(fds, xfd)
    /\ lockedBy' = Released(lockedBy, xfd)
    /\ xfd' = -1
    /\ fwEv' = FwEv("none", 0)
    /\ UNCHANGED <<flockInstalled, now, fileIno, nino, fd, isFirstOpen,
                   reopenTime, pc, cfd, res, nfwops, fputs, openmode, mode,
                   content, newIno, rn>>

RnNext ==
    \/ RenameFile
    \/ RnSource
    \/ RnTarget
    \/ RnRename
    \/ RnWaited
    \/ RnLocked
    \/ RnTimeout
    \/ ExtLock
    \/ ExtUnlock
    \/ FwTick
    \/ FwRotate

\* the data oldName and newName hold when they exist before the call
OldData == <<0>>
NewData == <<0, 0>>

\* oldName exists or not, and so does newName, each with its data; no
\* descriptor is open
FsNamed(old, new) ==
    /\ now = 0
    /\ fileIno = IF old THEN 1 ELSE 0
    /\ nino = (IF old THEN 1 ELSE 0) + (IF new THEN 1 ELSE 0)
    /\ newIno = IF new THEN nino ELSE 0
    /\ fds = <<>>
    /\ lockedBy = [i \in 1..MaxFiles |-> 0]
    /\ content = [i \in 1..MaxFiles |->
                    IF old /\ i = 1 THEN OldData
                    ELSE IF new /\ i = nino THEN NewData ELSE <<>>]
    /\ xfd = 0

\* renameFile, with or without fs-ext installed, while another program may
\* hold the lock of the file or remove oldName
RnInit ==
    /\ FputsNew
    /\ FwNew /\ openmode = AppendMode
    /\ \E old, new \in BOOLEAN : FsNamed(old, new)
    /\ flockInstalled \in BOOLEAN
    /\ RnNew

RnSpec == RnInit /\ [][RnNext]_vars

\* the FileWriter that writes to oldName while it is renamed
RnWriters == {1}

RnFwNext ==
    \/ RenameFile
    \/ RnSource
    \/ RnTarget
    \/ RnRename
    \/ RnWaited
    \/ RnLocked
    \/ RnTimeout
    \/ \E w \in RnWriters : FwWrite(w, w)
    \/ \E w \in RnWriters : FwOpened(w, w)
    \/ \E w \in RnWriters : FwLocked(w, w)
    \/ \E w \in RnWriters : FwAppend(w, w)
    \/ \E w \in RnWriters : FwWritten(w, w)
    \/ FwTick

\* renameFile of a file that a FileWriter appends to, with or without fs-ext
\* installed; newName does not exist
RnFwInit ==
    /\ FputsNew
    /\ FwNew /\ openmode = AppendMode
    /\ FsNamed(TRUE, FALSE)
    /\ flockInstalled \in BOOLEAN
    /\ RnNew

RnFwSpec == RnFwInit /\ [][RnFwNext]_vars

\* the FileWriter whose write calls overlap, and its write calls in progress
OvWriters == {1}
OvCalls == {1, 2}

OvNext ==
    \/ \E w \in OvWriters, c \in OvCalls : FwWrite(w, c)
    \/ \E w \in OvWriters, c \in OvCalls : FwOpened(w, c)
    \/ \E w \in OvWriters, c \in OvCalls : FwLocked(w, c)
    \/ \E w \in OvWriters, c \in OvCalls : FwAppend(w, c)
    \/ \E w \in OvWriters, c \in OvCalls : FwWritten(w, c)
    \/ \E w \in OvWriters : FwClose(w)
    \/ FwTick
    \/ FwRotate

\* one FileWriter whose write is called again before the call before it has
\* called back (FileWriter.write used standalone, without the Fputs in front
\* of it that issues one sink write at a time)
OvInit ==
    /\ FputsNew
    /\ FwNew /\ openmode = AppendMode
    /\ FsEmpty /\ flockInstalled = TRUE
    /\ RnNew

OvSpec == OvInit /\ [][OvNext]_vars

\* ------------------------------------------------------------ properties

\* bytes the sink has been handed, in the order of its write calls
Received == AllBytes(written)

\* the bytes of a queued chunk as _sync will hand them to the sink
ChunkBytes(c) == IF c.type = "string" THEN Utf8(c.str) ELSE Concat(c.chunks)

RECURSIVE QueuedBytes(_)
\* the bytes of the queued chunks, in queue order
QueuedBytes(chunks) ==
    IF chunks = <<>> THEN <<>>
    ELSE ChunkBytes(Head(chunks)) \o QueuedBytes(Tail(chunks))

\* nothing is queued, in flight or scheduled
Quiet == datachunks = <<>> /\ inflight = <<>> /\ syncTimers = <<>>

\* C1 (as amended): with no abort, the bytes the sink has received are at
\* every moment the submitted bytes in submission order up to some point
\* (each fputs line counted as its text and exactly one newline), they are
\* all of them once nothing is queued, and when a fflush issued after the
\* last submission calls back without an error every submitted byte has been
\* received and acknowledged.
C1_OrderKeptAndFlushedComplete ==
    ~aborted =>
      /\ IsPrefix(Received, submitted)
      /\ (datachunks = <<>> => Received = submitted)
      /\ (ev.cb = "fflush" /\ ev.err = NoError /\ ev.sub = Len(submitted)
            => Received = submitted /\ inflight = <<>>)

\* C1 witness: text and Buffer data were merged, written by a line of fputs
\* that got its newline, and a fflush issued after it has called back clean
C1_Witness ==
    /\ ~aborted
    /\ ev.cb = "fflush" /\ ev.err = NoError /\ ev.sub = Len(submitted)
    /\ Len(submitted) >= 5
    /\ submitted[Len(submitted)] = NL
    /\ \E i \in 1..Len(written) : written[i].type = "buffer" /\ Len(written[i].data) >= 3

\* C1 as stated: a fflush issued after the last submission that has called
\* back (with or without an error) finds no submitted byte missing
C1_AsStated ==
    ~aborted =>
      /\ IsPrefix(Received, submitted)
      /\ (ev.cb = "fflush" /\ ev.sub = Len(submitted) => Received = submitted)

\* C2: at most one sink write is outstanding and at most one step of the
\* drain loop is scheduled or running, and only while _syncing is set
C2_SingleFlight ==
    /\ Len(inflight) + Len(syncTimers) <= 1
    /\ (Len(inflight) + Len(syncTimers) = 1) = syncing

\* C2 witness: a write is outstanding at the sink after an abort, with data
\* written since queued behind it and a fflush and a drain waiting
C2_Witness ==
    /\ Len(inflight) = 1
    /\ aborted
    /\ datachunks # <<>>
    /\ Len(waiters) >= 2

\* C3: with no handler registered and no abort, when a fflush callback is
\* invoked without an error every byte submitted before that fflush call is in
\* a payload handed to the sink whose completion callback has run
C3_FlushedIsAcknowledged ==
    (onError = NoHandler /\ ~aborted /\ ev.cb = "fflush" /\ ev.err = NoError)
        => AckedBytes >= ev.sub

\* C3 witness: a fflush that had to wait for two sink writes calls back clean
\* while data submitted after it is still queued
C3_Witness ==
    /\ onError = NoHandler /\ ~aborted
    /\ ev.op = "poll" /\ ev.cb = "fflush" /\ ev.err = NoError
    /\ ev.sub > 0
    /\ nsink >= 2
    /\ Len(submitted) > ev.sub
    /\ AckedBytes < Len(submitted)

\* C4 (as amended): the error a fflush callback receives is taken out of the
\* latch, and a fflush issued after a fflush callback has received an error,
\* with no write call since and with no chunk queued or in flight when that
\* callback ran, receives no error
C4_SecondFlushClean ==
    /\ (ev.cb = "fflush" /\ ev.err # NoError => error = NoError)
    /\ (ev.cb = "fflush" /\ ev.rep = "idle" => ev.err = NoError)

\* C4 witness: the only sink write failed, a fflush received its error, and
\* a second fflush issued afterwards has called back without one
C4_Witness ==
    /\ nsink = 1 /\ returned = {1} /\ handled = {}
    /\ ev.op = "fflush" /\ ev.cb = "fflush" /\ ev.rep = "idle" /\ ev.err = NoError

\* C4 as stated: a fflush issued after a fflush callback has received an
\* error, with no write call since, receives no error
C4_AsStated ==
    ev.cb = "fflush" /\ ev.rep # "none" => ev.err = NoError

\* C5 as stated: a drain callback without an error runs only where
\* unwrittenLength - writtenLength <= maxUnwritten; for drain(0, cb) that is
\* only once nothing is queued or in flight; and drain(0, cb) calls back at
\* once on an idle writer with nothing pending
C5_AsStated ==
    /\ (ev.cb = "drain" /\ ev.err = NoError
          => unwrittenLength - writtenLength <= ev.max)
    /\ (ev.cb = "drain" /\ ev.err = NoError /\ ev.max = 0
          => datachunks = <<>> /\ inflight = <<>>)
    /\ (Quiet /\ error = NoError => drain(0) = "callback")

\* C6 as stated: in every state drain(callback) does what
\* drain(2 * writesize, callback) does, the latched error included
C6_AsStated ==
    drain(Omitted) = drain(2 * WriteSize)

\* C7: with no handler registered, a failed sink write sets the latch only if
\* it is empty (the first error is kept, later ones are dropped), and an error
\* passed to a drain or fflush callback is the latched one and leaves the
\* latch empty
C7_FirstErrorLatched ==
    [][ /\ (onError = NoHandler /\ ev'.op = "ack" /\ ev'.err # NoError
              => error' = IF error = NoError THEN ev'.err ELSE error)
        /\ (ev'.cb \in {"drain", "fflush"} /\ ev'.err # NoError
              => ev'.err = error /\ error' = NoError) ]_vars

\* C7 witness: a second sink write has failed while the first error is latched
C7_Witness ==
    onError = NoHandler /\ ev.op = "ack" /\ ev.err = 2 /\ error = 1

\* C8: while a handler is registered the latch stays empty, every failed sink
\* write passes its error to the handler, and no fflush or drain callback
\* receives an error
C8_HandlerSeesEveryError ==
    onError = Handler =>
      /\ error = NoError
      /\ (ev.op = "ack" /\ ev.err # NoError => ev.hnd = ev.err)
      /\ (ev.cb \in {"fflush", "drain"} => ev.err = NoError)

\* C8 witness: two sink writes failed, the handler got both errors, and a
\* fflush that waited for them has called back
C8_Witness ==
    /\ onError = Handler /\ handled = {1, 2}
    /\ ev.op = "poll" /\ ev.cb = "fflush" /\ ev.err = NoError

\* C9: the completion callback of a failed sink write passes the error to the
\* registered handler and invokes no fflush or drain callback: every call
\* waiting before it is still waiting after it
C9_HandlerBeforeCallbacks ==
    [][ (onError = Handler /\ ev'.op = "ack" /\ ev'.err # NoError)
          => (ev'.hnd = ev'.err /\ ev'.cb = "none" /\ waiters' = waiters) ]_vars

\* C9 witness: a sink write has failed and gone to the handler while a fflush
\* is waiting for that chunk
C9_Witness ==
    /\ ev.op = "ack" /\ ev.hnd # NoError
    /\ \E i \in 1..Len(waiters) :
          waiters[i].kind = "fflush" /\ FflushDone(waiters[i].expected, waiters[i].rc)

\* C10: setOnError called with an error latched passes that error to the
\* handler and empties the latch, and no error the handler got is passed to
\* a fflush or drain callback
C10_LatchedErrorToNewHandler ==
    [][ /\ (ev'.op = "setOnError" /\ error # NoError
              => ev'.hnd = error /\ error' = NoError)
        /\ (ev'.cb \in {"fflush", "drain"} /\ ev'.err # NoError
              => ev'.err \notin handled) ]_vars

\* C10 witness: setOnError has just passed the latched error to the handler
\* while another sink write is still outstanding
C10_Witness ==
    /\ ev.op = "setOnError" /\ ev.hnd = 1 /\ error = NoError
    /\ Len(inflight) = 1

\* C11: the sink is handed only bytes it had already been handed when abort
\* was called and bytes submitted after that call: at every moment what it has
\* received, followed by what is queued, is what was submitted and not
\* discarded by an abort, so no chunk that was queued at an abort reaches it.
C11_AbortedChunksNeverSent ==
    /\ Received \o QueuedBytes(datachunks) = kept
    /\ (ev.op = "abort" => datachunks = <<>>)

\* C11 witness: an abort discarded queued bytes, data written after it has
\* been received and acknowledged, and the discarded bytes are not among it
C11_Witness ==
    /\ aborted /\ ev.op = "ack"
    /\ Len(kept) < Len(submitted) /\ kept # <<>>
    /\ kept # SubSeq(submitted, 1, Len(kept))
    /\ Received = kept /\ datachunks = <<>> /\ inflight = <<>>

\* C12: when abort's callback runs no sink write is outstanding, and an
\* abort called while a sink write was outstanding calls back from its wait
\* loop, after that write's completion callback has run.
C12_AbortWaitsForSink ==
    ev.cb = "abort" =>
      /\ inflight = <<>>
      /\ ~syncing
      /\ (ev.busy > 0 => ev.op = "poll")

\* C12 witness: the callback of an abort that was called while a sink write
\* was outstanding has run
C12_Witness == ev.cb = "abort" /\ ev.busy > 0 /\ written # <<>>

\* the value getUnwrittenLength() returns
getUnwrittenLength == unwrittenLength - writtenLength

\* C13: write always enqueues its data, and the value it returns is true
\* exactly when, after the item has been enqueued, unwrittenLength -
\* writtenLength <= highWaterMark, and false otherwise.
C13_WriteReturnsBackpressure ==
    ev.op = "write" =>
      /\ datachunks # <<>>
      /\ ev.ret \in {"true", "false"}
      /\ (ev.ret = "true") = (getUnwrittenLength <= HighWaterMark)

\* C13 witness: a write has returned false, the backlog after it being the
\* first value above the mark
C13_Witness ==
    /\ ev.op = "write" /\ ev.ret = "false"
    /\ getUnwrittenLength = HighWaterMark + 1

\* C14 as stated: fputs returns true while the backlog after the call is at
\* or under highWaterMark and false when it is above
C14_AsStated ==
    ev.op = "fputs" =>
      ev.ret = (IF getUnwrittenLength <= HighWaterMark THEN "true" ELSE "false")

\* the step is the call write(item, ...): it submitted the bytes of item
WriteOf(item) == ev'.op = "write" /\ submitted' = submitted \o ItemBytes(item)

\* C15: write's callback runs only in the step of the write call it was
\* passed to (so once per call), with no error, whatever is latched, and the
\* length of the item (the chars of a string, the bytes of a Buffer), and in
\* that step nothing is handed to the sink: the item is in the queue.
C15_WriteCallbackAtBuffering ==
    [][ev'.cb = "write" =>
          /\ ev'.err = NoError /\ ev'.hnd = NoError
          /\ \E item \in WriteItems : WriteOf(item) /\ ev'.len = Len(item.val)
          /\ written' = written /\ inflight' = inflight /\ nsink' = nsink
          /\ error' = error
          /\ Len(QueuedBytes(datachunks')) > Len(QueuedBytes(datachunks))]_vars

\* C15 witness: the callback of a write of a two-byte character has run
\* while an error of the sink was latched
C15_Witness ==
    /\ ev.cb = "write" /\ ev.len = 1 /\ error # NoError
    /\ Len(submitted) >= 2
    /\ SubSeq(submitted, Len(submitted) - 1, Len(submitted)) = Utf8(<<233>>)

\* C16: a step that changes the reset epoch starts from a state where
\* writtenLength equals unwrittenLength (getUnwrittenLength() is 0), adds
\* exactly one to the epoch and zeroes both counters, so that after the step
\* the counters hold only the item being written: the backlog observed
\* before and after differs by that item's length alone.  The counters
\* return to zero in no other step.
C16_ResetKeepsBacklog ==
    [][/\ resetCount' # resetCount =>
             /\ resetCount' = resetCount + 1
             /\ writtenLength = unwrittenLength /\ writtenLength > 0
             /\ writtenLength' = 0
             /\ \E item \in WriteItems \cup
                              {[kind |-> "string", val |-> fputsLine(ToStr(i))] : i \in FputsItems} :
                    /\ submitted' = submitted \o ItemBytes(item)
                    /\ unwrittenLength' = Len(item.val)
       /\ (writtenLength' < writtenLength \/ unwrittenLength' < unwrittenLength)
             => resetCount' # resetCount]_vars

\* C16 witness: the second reset has just been made by a write
C16_Witness == resetCount = 2 /\ ev.op \in {"write", "fputs"} /\ writtenLength = 0

\* the strings write is passed by the text writes and the fputs calls
Texts ==
    {item.val : item \in {i \in WriteItems : i.kind = "string"}}
      \cup {fputsLine(ToStr(item)) : item \in FputsItems}

\* the step is a write or fputs call that passed the string str to write
TextSubmitted(str) ==
    ev'.op \in {"write", "fputs"} /\ submitted' = submitted \o Utf8(str)

\* C17: a text write made while the chunk at the end of the queue is a text
\* chunk, the two together no longer than writesize, adds no chunk: it
\* appends its text to that chunk; and _sync hands a queued text chunk to
\* the sink whole, in one write call.  So such writes reach the sink as one
\* payload.
C17_TextMergedIntoOneWrite ==
    [][/\ \A str \in Texts :
             LET n == Len(datachunks)
             IN (/\ TextSubmitted(str)
                 /\ n > 0 /\ datachunks[n].type = "string"
                 /\ Len(datachunks[n].str) + Len(str) <= WriteSize)
                => /\ Len(datachunks') = n
                   /\ datachunks'[n].type = "string"
                   /\ datachunks'[n].str = datachunks[n].str \o str
                   /\ SubSeq(datachunks', 1, n - 1) = SubSeq(datachunks, 1, n - 1)
       /\ (ev'.op = "sync" /\ datachunks # <<>> /\ Head(datachunks).type = "string")
             => /\ nsink' = nsink + 1
                /\ written' = Append(written, [type |-> "string",
                                               data |-> Head(datachunks).str])]_vars

\* C17 witness: two lines written by fputs one directly after the other,
\* together of length writesize, have reached the sink in its only write
\* call, as one payload
C17_Witness ==
    /\ ev.op = "sync" /\ nsink = 1 /\ nops = 2
    /\ submitted = <<NL, NL>>
    /\ written = <<[type |-> "string", data |-> <<NL, NL>>]>>

\* a sink write has just failed with chunks still in the queue
FailedWithQueue == ev.op = "ack" /\ ev.err # NoError /\ datachunks # <<>>

\* C18: the completion callback of a failed sink write, whether the error
\* went to the latch or to the handler, schedules the next _sync when chunks
\* are queued, and from then on the queue is emptied: every chunk in it is
\* handed to the sink (unless an abort discards it), the sink receiving the
\* bytes in submission order.
C18_DrainLoopSurvivesFailure ==
    /\ [](FailedWithQueue => syncing /\ Len(syncTimers) = 1)
    /\ (FailedWithQueue ~> (datachunks = <<>> /\ Received = kept))

\* C18 witness: the first sink write failed and its error is latched, the
\* second chunk, queued before that failure (no write since then, which
\* would have reset the counters), has been handed to the sink by _sync
C18_Witness ==
    /\ ev.op = "sync" /\ nsink = 2 /\ error = 1 /\ resetCount = 0
    /\ writtenLength > 0 /\ ~aborted
    /\ datachunks = <<>> /\ Received = submitted

\* FileWriter w is inside its physical write: fs.write was issued on a
\* descriptor that is open and has not finished
InsideWrite(w) == pc[w] = "write" /\ fds[cfd[w]].ino # 0

\* the descriptor w writes through holds the exclusive lock of its file
HoldsLock(w) == lockedBy[fds[cfd[w]].ino] = cfd[w]

\* the locks held on descriptors that FileWriter w opened
LocksOf(w) == {i \in DOMAIN lockedBy : lockedBy[i] # 0 /\ fds[lockedBy[i]].by = w}

\* C19 as stated: a FileWriter inside its physical write holds the exclusive
\* lock on the descriptor it writes through, and no two FileWriters are
\* inside a physical write to the same file at the same time
C19_AsStated ==
    \A w \in FileWriters :
       InsideWrite(w) =>
         /\ HoldsLock(w)
         /\ \A v \in FileWriters \ {w} :
               ~(InsideWrite(v) /\ fds[cfd[v]].ino = fds[cfd[w]].ino)

\* C20: when the callback of write is invoked, from whichever step (the
\* write finished with or without an error, flock failed, or an open or a
\* reopen failed), no descriptor opened by that FileWriter holds a lock; and
\* a FileWriter with no write call in progress holds none.
C20_NoLockAtCallback ==
    /\ fwEv.op # "none" => LocksOf(fwEv.w) = {}
    /\ \A w \in FileWriters : pc[w] \in {"idle", "open"} => LocksOf(w) = {}

\* C20 witness: a write that took the lock after its descriptor had been
\* reopened has failed in fs.write and called back with the error; the other
\* FileWriter is waiting for the lock of the same file, which is free
C20_Witness ==
    /\ flockInstalled
    /\ fwEv.op = "write" /\ fwEv.err = "EIO"
    /\ Len(fds) >= 3
    /\ fd[fwEv.w] # 0
    /\ \E v \in FileWriters \ {fwEv.w} :
          /\ pc[v] = "lock" /\ fds[cfd[v]].ino = fds[fd[fwEv.w]].ino
          /\ lockedBy[fds[cfd[v]].ino] = 0

\* FileWriter w takes a step from position p to position q of its write call
FwStep(w, p, q) == pc[w] = p /\ pc'[w] = q

\* C21: fs.write is issued only from the callback of flock, with the lock
\* taken and the current time before reopenTime; from that callback a
\* descriptor found stale is unlocked and closed and the file is opened by
\* name again, so that the write is issued only after flock on the new
\* descriptor; reopenTime is the time the open was started plus
\* reopenInterval; and data reaches a file only through such a write.
C21_AppendsThroughFreshDescriptor ==
    [][\A w \in FileWriters :
         /\ pc'[w] = "write" /\ pc[w] # "write" =>
               /\ pc[w] = "lock" /\ cfd'[w] = cfd[w]
               /\ now < reopenTime[w]
               /\ flockInstalled => lockedBy'[fds[cfd[w]].ino] = cfd[w]
         /\ FwStep(w, "lock", "open") =>
               /\ now >= reopenTime[w]
               /\ fds'[cfd[w]].ino = 0 /\ fd'[w] = 0
               /\ \A i \in DOMAIN lockedBy : lockedBy'[i] # cfd[w]
         /\ pc'[w] = "open" /\ pc[w] # "open" =>
               reopenTime'[w] = now + ReopenInterval
         /\ pc'[w] = "lock" => pc[w] \in {"idle", "open", "lock"}
         /\ (\E i \in DOMAIN content :
                Len(content'[i]) > Len(content[i])
                /\ content'[i][Len(content'[i])] = w) =>
               FwStep(w, "write", "written")
      ]_vars

\* C21 witness: a FileWriter whose second write found its descriptor stale
\* after locking it has closed it, opened the file again and, holding the
\* lock of the new descriptor, which is fresh, has issued its fs.write
C21_Witness ==
    \E w \in FileWriters :
       /\ flockInstalled /\ nfwops = 2 /\ now >= ReopenInterval
       /\ Len(fds) = 2 /\ fds[1].by = w /\ fds[2].by = w
       /\ fds[1].ino = 0 /\ fds[2].ino # 0
       /\ content[fds[2].ino] = <<w>>
       /\ pc[w] = "write" /\ cfd[w] = 2 /\ HoldsLock(w)
       /\ now < reopenTime[w]

\* FileWriter w has opened the file before
HasOpened(w) == \E d \in DOMAIN fds : fds[d].by = w

\* no data is removed from any file in this step
DataKept == \A i \in DOMAIN content : IsPrefix(content[i], content'[i])

Steps == <<"source", "target", "rename", "wait", "lock">>

\* the callback of renameFile has been invoked with this error
Reported(err) == rn.pc = "done" /\ rn.err = err

C24_TargetExistsFailsFast ==
    /\ [](rn.pc # "idle" /\ rn.target # 0 =>
            /\ rn.moved = 0 /\ rn.pc \notin {"rename", "wait", "flock"}
            /\ ~rn.guard /\ rn.fd = 0
            /\ IsPrefix(rn.steps, <<"source", "target">>)
            /\ newIno = rn.target /\ content[newIno] = NewData
            /\ rn.pc = "done" =>
                  \/ rn.err = "EEXIST" /\ rn.steps = <<"source", "target">>
                  \/ rn.err = "ENOENT" /\ rn.steps = <<"source">>)
    /\ [][rn.target # 0 /\ rn' # rn =>
            fileIno' = fileIno /\ newIno' = newIno /\ content' = content]_vars

\* C24 witness: both files existed when renameFile was called; it has
\* reported EEXIST after the first two steps, oldName still names its file
\* and newName its own, with the data each had
C24_Witness ==
    /\ Reported("EEXIST") /\ rn.steps = <<"source", "target">> /\ rn.calls = 1
    /\ fileIno = 1 /\ content[1] = OldData
    /\ newIno = 2 /\ content[2] = NewData

\* C25 as stated: if newName did not exist when renameFile was called, then
\* once the callback has run newName either does not exist or is the file
\* that oldName named, with its data
C25_AsStated ==
    rn.pc = "done" /\ rn.target = 0 =>
       \/ newIno = 0
       \/ rn.moved # 0 /\ newIno = rn.moved /\ content[newIno] = rn.had

\* the callback of renameFile runs in this step
Reports == rn.pc # "done" /\ rn'.pc = "done"

\* C26 as stated: when the callback runs without an error, waitMs has
\* passed since the rename step, and no descriptor other than the one
\* renameFile opened holds the exclusive lock of the renamed file
C26_AsStated ==
    [][Reports /\ rn'.err = None =>
          /\ now >= rn'.at + rn'.waitMs
          /\ rn'.fd # 0 /\ rn'.ino = rn'.moved
          /\ lockedBy[rn'.ino] \in {0, rn'.fd}
      ]_vars

\* another program holds the exclusive lock of the renamed file
HeldByOther == xfd > 0 /\ rn.moved # 0 /\ lockedBy[rn.moved] = xfd

\* C27 as stated: the callback is invoked at most once, also after the lock
\* was released and the flock request answered; a callback that runs while
\* another program holds the lock of the renamed file, the file having
\* been opened and flock not having failed, gets the timeout error; and the
\* timeout error comes no earlier than mutexTimeout after the lock step
\* started
C27_AsStated ==
    /\ [](rn.calls <= 1)
    /\ [][Reports /\ HeldByOther /\ rn'.fd # 0 /\ rn'.err # "ENOLCK" =>
             rn'.err = "timed out"]_vars
    /\ [][Reports /\ rn'.err = "timed out" =>
             rn.pc = "flock" /\ now >= rn.t + rn.mutexTimeout]_vars

\* C28 as stated: once renameFile, called with waitMs >= reopenInterval,
\* has reported success, no data is appended to the renamed file, and no
\* FileWriter gets from flock to fs.write on a descriptor open on it
C28_AsStated ==
    [][Reported(None) /\ GivenWaitMs(rn.arg) >= ReopenInterval =>
          /\ content'[rn.moved] = content[rn.moved]
          /\ \A w \in FileWriters :
                FwStep(w, "lock", "write") => fds[cfd[w]].ino # rn.moved
      ]_vars

\* C29 as stated: a call given a number waits that long, and a call given
\* an options object uses the waitMs and the mutexTimeout of the options
C29_AsStated ==
    rn.pc # "idle" =>
       /\ rn.waitMs = GivenWaitMs(rn.arg)
       /\ rn.arg.kind = "options" => rn.mutexTimeout = rn.arg.mutexTimeout

\* the step of the series that ran last
LastStep == rn.steps[Len(rn.steps)]

\* C30: the steps run are at every moment the first few of the series, in
\* its order; the callback is invoked once, when the series ends, and then
\* no step runs and the call changes nothing more; an error reported is that
\* of the step that ran last; and step 1 finding oldName missing ends the
\* call with ENOENT, newName being what it was, nothing renamed and no file
\* created.
C30_StepsInOrderUntilFirstFailure ==
    /\ [](/\ IsPrefix(rn.steps, Steps)
          /\ rn.calls = (IF rn.pc = "done" THEN 1 ELSE 0)
          /\ rn.pc = "done" /\ rn.err # None =>
                CASE rn.err = "EEXIST" -> LastStep = "target"
                  [] rn.err = "ENOENT" -> LastStep \in {"source", "rename"}
                  [] OTHER -> LastStep = "lock"
          /\ rn.pc = "done" /\ rn.err = None => rn.steps = Steps
          /\ rn.pc = "done" /\ rn.steps = <<"source">> =>
                /\ rn.err = "ENOENT" /\ fileIno = 0
                /\ newIno = rn.target /\ rn.moved = 0)
    /\ [][rn.pc = "source" /\ rn' # rn =>
             /\ fileIno = 0 => rn'.pc = "done" /\ rn'.err = "ENOENT"
             /\ fileIno' = fileIno /\ newIno' = newIno
             /\ nino' = nino /\ content' = content]_vars
    /\ [][rn.pc = "done" =>
             /\ rn'.steps = rn.steps /\ rn'.err = rn.err
             /\ newIno' = newIno /\ content' = content /\ nino' = nino
             /\ rn' # rn => fileIno' = fileIno]_vars

\* C30 witness: neither file existed; renameFile has run step 1 only and
\* reported ENOENT, once, and no file exists
C30_Witness ==
    /\ Reported("ENOENT") /\ rn.steps = <<"source">> /\ rn.calls = 1
    /\ fileIno = 0 /\ newIno = 0 /\ nino = 0

RECURSIVE ChunkLengths(_)
\* the sum of the length fields of the queued chunks: chars of a text chunk,
\* bytes of a list-of-buffers chunk
ChunkLengths(chunks) ==
    IF chunks = <<>> THEN 0 ELSE Head(chunks).length + ChunkLengths(Tail(chunks))

RECURSIVE InflightLengths(_)
\* the sum of chunk.length over the chunks handed to the sink and not yet
\* acknowledged, as the completion callback will add them to writtenLength
InflightLengths(fl) ==
    IF fl = <<>> THEN 0 ELSE Len(Head(fl).data) + InflightLengths(Tail(fl))

\* C31 (as stated): after any sequence of write, fputs and abort calls and
\* sink acknowledgements, getUnwrittenLength() equals the total length of
\* the chunks that are queued or in flight (chars for text chunks, bytes for
\* binary chunks), and is never negative.
C31_AsStated ==
    /\ getUnwrittenLength = ChunkLengths(datachunks) + InflightLengths(inflight)
    /\ getUnwrittenLength >= 0

\* C32 (as stated): a fflush that is waiting calls back with the error as
\* soon as a sink error becomes latched, also while chunks submitted before
\* it are still queued or unacknowledged: whenever an error is latched, the
\* condition every waiting fflush polls for is true, so that its next poll
\* calls back
C32_AsStated ==
    \A i \in 1..Len(waiters) :
        (waiters[i].kind = "fflush" /\ error # NoError)
            => FflushDone(waiters[i].expected, waiters[i].rc)

\* C33: abort's callback receives the sink error that is latched at the time
\* it fires, if any (and no error if none is latched), the latch is empty
\* afterwards, and no fflush or drain callback reports an error that a
\* callback has already received.
C33_AbortTakesLatchedError ==
    [][ /\ (ev'.cb = "abort" => ev'.err = error /\ error' = NoError)
        /\ (ev'.cb \in {"fflush", "drain"} /\ ev'.err # NoError
              => ev'.err \notin returned) ]_vars

\* C33 witness: an abort that had to wait for the sink has called back with
\* the error of the write that failed meanwhile, and the latch is empty
C33_Witness ==
    /\ ev.op = "poll" /\ ev.cb = "abort" /\ ev.busy > 0
    /\ ev.err # NoError /\ ev.err \in returned /\ error = NoError

\* C34: a reopen (isFirstOpen not set) that fails with file-not-found is not
\* reported: the open is issued again, as a first open with the original
\* open mode.  An open made as a first open is never issued again: if it
\* fails, its error is passed to the callback of write.  So between two
\* opens that fail with file-not-found at most one retry is made.
C34_ReopenRetriedOnce ==
    [][\A w \in ModeWriters :
         /\ (pc[w] = "open" /\ isFirstOpen'[w] # isFirstOpen[w] /\ isFirstOpen'[w]
               => /\ fileIno = 0
                  /\ pc'[w] = "open" /\ mode'[w] = openmode[w]
                  /\ fwEv'.op = "none")
         /\ (pc[w] = "open" /\ isFirstOpen[w] /\ pc'[w] = "open"
               => mode'[w] = mode[w] /\ reopenTime'[w] = reopenTime[w]
                  /\ isFirstOpen'[w])
         /\ (pc[w] = "open" /\ pc'[w] = "idle"
               => /\ fwEv'.op = "open" /\ fwEv'.w = w
                  /\ fwEv'.err \in {"ENOENT", "EACCES"}
                  /\ (fwEv'.err = "ENOENT" => isFirstOpen[w])
                  /\ fd'[w] = 0)
         /\ (pc[w] = "open" /\ pc'[w] \notin {"open", "idle"}
               => pc'[w] = "lock" /\ fd'[w] # 0 /\ ~isFirstOpen'[w])
      ]_vars

\* C34 witness: an instance created with mode "w" that has written before
\* reopened its file, did not find it, opened again with mode "w", and
\* that open failed with file-not-found too: write's callback got the error
C34_Witness ==
    /\ openmode[1] = <<"w">>
    /\ fwEv.op = "open" /\ fwEv.w = 1 /\ fwEv.err = "ENOENT"
    /\ isFirstOpen[1] /\ pc[1] = "idle"
    /\ \E i \in 1..nino : content[i] # <<>>

\* C35 (as stated): whenever renameFile's callback runs (success, timeout or
\* the error of any step) the call holds no advisory lock and no open
\* descriptor on newName, and no lock request of its own is still pending.
C35_AsStated ==
    [][Reports =>
         /\ \A d \in 1..Len(fds') : fds'[d].by = 0 => fds'[d].ino = 0
         /\ \A i \in 1..MaxFiles :
               lockedBy'[i] # 0 => fds'[lockedBy'[i]].by # 0
         /\ ~rn'.pending]_vars

\* the descriptors instance w has open
OpenFds(w) == {d \in 1..Len(fds) : fds[d].by = w /\ fds[d].ino # 0}

\* C36 (as stated): a FileWriter instance never has more than one descriptor
\* open at a time, and a descriptor of its own that this.fd held is closed
\* when another one replaces it, for any sequence of write and close calls,
\* write calls that overlap included.
C36_AsStated ==
    /\ [](\A w \in OvWriters : Cardinality(OpenFds(w)) <= 1)
    /\ [][\A w \in OvWriters :
            fd[w] # 0 /\ fd'[w] # fd[w] => fds'[fd[w]].ino = 0]_vars

\* the writer is idle: nothing queued or in flight, no step of the loop
\* scheduled, _syncing false
Idle == Quiet /\ ~syncing

\* C37: a non-empty queue never coexists with _syncing being false; and if
\* the timers fire and the sink completes every write, then, unless abort is
\* called, whenever chunks are queued the writer later returns to idle with
\* every submitted byte handed to the sink.
C37_QueueIsDrained ==
    /\ [](datachunks # <<>> => syncing)
    /\ ((datachunks # <<>> /\ ~aborted)
          ~> (aborted \/ (Idle /\ Received = submitted)))

\* C37 witness: with no abort, the writer is idle again after the sink has
\* acknowledged its third write, the last item having been written while an
\* earlier chunk was at the sink, and the sink has every submitted byte
C37_Witness ==
    /\ ~aborted /\ Idle /\ ev.op = "ack" /\ ev.err = NoError
    /\ nsink = 3 /\ Received = submitted
    /\ resetCount = 0

\* a fflush or drain call is waiting for its callback
Waiting == \E i \in 1..Len(waiters) : waiters[i].kind \in {"fflush", "drain"}

\* C38 (as stated): if the sink completes every write, every fflush call and
\* every drain call eventually invokes its callback, for any sequence of
\* write, fputs and abort calls: once the calls have been made, no fflush or
\* drain is left waiting.
C38_AsStated == <>[]~Waiting

C40_RenameStaysOnLockError ==
    /\ [](rn.pc = "done" /\ rn.err # None /\ LastStep = "lock" =>
            /\ rn.moved # 0
            /\ newIno = rn.moved /\ fileIno # rn.moved
            /\ IsPrefix(rn.had, content[rn.moved]))
    /\ [][Reports /\ rn'.err \in {"timed out", "ENOLCK", "EACCES"} =>
            /\ rn.pc \in {"wait", "flock"}
            /\ newIno' = newIno /\ fileIno' = fileIno
            /\ newIno = rn.moved]_vars

\* C40 witness: the timeout error was reported while another program held
\* the lock; newName names the file with the data of oldName and oldName
\* names nothing
C40_Witness ==
    /\ Reported("timed out") /\ HeldByOther
    /\ rn.moved # 0 /\ newIno = rn.moved /\ fileIno = 0
    /\ content[newIno] = OldData
====
